---- MODULE Spec2Model ----
(***************************************************************************)
(* Model of iteratorFuncs (src/src/index.ts, the revision that starts at   *)
(* line 440): lazy map / filter / reduce nodes over a pull-based producer, *)
(* the chaining methods of AugmentedIterator and the eager reducer.        *)
(*                                                                         *)
(* A producer is a generator that yields the elements of a finite list and *)
(* then either returns or throws.  A chain is a sequence of nodes: chain[1]*)
(* wraps the producer, chain[k] wraps chain[k-1], and the consumer pulls   *)
(* the last node.  All program values in the model are natural numbers;    *)
(* the JavaScript value undefined is the number Undefined.                 *)
(***************************************************************************)
EXTENDS Integers, Sequences, FiniteSets, TLC

\* ---------------------------------------------------------------- bounds
MaxLen == 3          \* longest producer
MaxVal == 2          \* elements are drawn from 1..MaxVal
MaxDepth == 2        \* longest chain of nodes
MaxDonePulls == 1    \* further pulls the consumer makes after the first done
MaxInFlight == 2     \* next() calls a careless consumer keeps unsettled at once

\* ------------------------------------------------------------- constants
Undefined == 0 - 1   \* the value of `return;` and of a finished generator
PassedBack == 10     \* the value the tests pass to next(10)
\* What is thrown travels in the value field of a result whose thrown is TRUE.
ProducerError == 0 - 2   \* the err the failing generators of the tests throw
UserError == 0 - 3       \* an error a user-supplied function throws

Values == 1..MaxVal
Elems == UNION {[1..n -> Values] : n \in 0..MaxLen}
Endings == {"return", "throw"}
Mappers == {"double"}
Predicates == {"even", "gt2"}
Reducers == {"add", "cat"}
Initials == {0, 10}
NextArgs == {<<>>, <<PassedBack>>}
\* user functions that throw UserError on an even item and otherwise behave
\* as ApplyMapper, ApplyPredicate ("gt2") and ApplyReducer ("cat") say
ThrowingMappers == {"mapThrow"}
ThrowingPredicates == {"predThrow"}
ThrowingReducers == {"redThrow"}

\* ------------------------------------------- values passed as `iterator`
\* type is what the value is (typeof null is "object", see Typeof); sync and
\* async say whether it has a Symbol.iterator / Symbol.asyncIterator method.
NullArg == [type |-> "null", sync |-> FALSE, async |-> FALSE]
UndefinedArg == [type |-> "undefined", sync |-> FALSE, async |-> FALSE]
NumberArg == [type |-> "number", sync |-> FALSE, async |-> FALSE]
PlainObjectArg == [type |-> "object", sync |-> FALSE, async |-> FALSE]
FunctionArg == [type |-> "function", sync |-> FALSE, async |-> FALSE]
GeneratorArg == [type |-> "object", sync |-> TRUE, async |-> FALSE]
AsyncGeneratorArg == [type |-> "object", sync |-> FALSE, async |-> TRUE]
BothArg == [type |-> "object", sync |-> TRUE, async |-> TRUE]
ProducerArgs == {NullArg, UndefinedArg, NumberArg, PlainObjectArg, FunctionArg,
                 GeneratorArg, AsyncGeneratorArg, BothArg}

\* an AugmentedAsyncIterator as the `iterator` argument: [Symbol.asyncIterator] only
AsyncNodeArg == [type |-> "object", sync |-> FALSE, async |-> TRUE]

Truthy(a) == a.type \notin {"null", "undefined"}
Typeof(a) == IF a.type = "null" THEN "object" ELSE a.type

\* !!arg && typeof arg === 'object' && typeof arg[Symbol.iterator] === 'function'
isIteratable(a) == Truthy(a) /\ Typeof(a) = "object" /\ a.sync

NeitherMessage == "iterator parameter was neither an IterableIterator or an AsyncIterableIterator!"
TodoMessage == "TODO"
\* the TypeErrors of the runtime: `in` on a non-object, a property read on
\* null or undefined, a call of undefined
InTypeError == "Cannot use 'in' operator to search for 'Symbol(Symbol.asyncIterator)'"
ReadTypeError == "Cannot read properties of null or undefined (reading 'Symbol(Symbol.iterator)')"
CallTypeError == "iterable[Symbol.iterator] is not a function"

\* as reduceIterator_dispatch, with the asynchronous capability looked for
\* before the synchronous one
reduceIterator_dispatch_asyncFirst(a) ==
  IF a.type \notin {"object", "function"} /\ ~isIteratable(a) THEN InTypeError
  ELSE IF a.type \in {"object", "function"} /\ a.async THEN "async"
  ELSE IF isIteratable(a) THEN "sync"
  ELSE NeitherMessage

\* the branch reduceIterator takes for the argument a
reduceIterator_dispatch(a) ==
  IF isIteratable(a) THEN "sync"
  ELSE IF a.type \notin {"object", "function"} THEN InTypeError
  ELSE IF a.async THEN "async"
  ELSE NeitherMessage

\* this.iterable = iterable[Symbol.iterator]() in the constructors of
\* SyncAugmentedIterators
GetIterator(a) ==
  IF ~Truthy(a) THEN ReadTypeError
  ELSE IF ~a.sync THEN CallTypeError
  ELSE "sync"


VARIABLES
  gen,      \* the generator function: [elems, ending]
  iter,     \* the generator object the chain wraps: [pos, fin, nexts, recv]
  chain,    \* the nodes, innermost first
  built,    \* the constructor and chaining calls made, in order
  out,      \* the values the outermost node has yielded to the consumer
  last,     \* the outcome of the consumer's latest next(): [done, value, thrown]
  pulls,    \* number of next() calls the consumer has made
  dones,    \* number of those calls that returned done = true
  lastArgs, \* the args of the consumer's latest next(...args)
  iter2,    \* a fresh generator object of the same generator function
  eager,    \* the outcome of eagerlyReduceIterator over iter2
  toArray,  \* the outcome of mapIteratorToArray / filterIteratorToArray
  arg,      \* the value handed to a constructor as its iterator parameter
  made,     \* what the latest constructor or async chaining call did
  achain,   \* the asynchronous reducing nodes, innermost first
  aiter,    \* the async generator object the asynchronous nodes wrap
  flight,   \* the next() calls on the outermost async node not yet settled
  aout,     \* the values the outermost async node has yielded
  alast,    \* the outcome of the latest settled next() of that node
  adones,   \* number of settled next() calls that gave done = true
  overlapped, \* some next() was called while an earlier one had not settled
  heap,     \* node objects built over the generator object or over each other
  gave,     \* per object (the generator object first) the values its next()
            \* has returned, each with the object whose call received it
  loop      \* the latest for-of loop over a node: [ran, on, values, broke]

syncVars == <<gen, iter, chain, built, out, last, pulls, dones, lastArgs, iter2, eager,
              toArray>>
asyncVars == <<arg, made, achain, aiter, flight, aout, alast, adones, overlapped>>
shareVars == <<heap, gave, loop>>
vars == <<gen, iter, chain, built, out, last, pulls, dones, lastArgs, iter2, eager,
          toArray, arg, made, achain, aiter, flight, aout, alast, adones, overlapped,
          heap, gave, loop>>

\* ------------------------------------------------- the user's functions
\* (item) => item * 2
ApplyMapper(f, x) == x * 2

\* (item) => item % 2 == 0   and   (item) => item > 2
ApplyPredicate(g, x) == IF g = "even" THEN x % 2 = 0 ELSE x > 2

\* (carry, item) => carry + item   and   (carry, item) => `${carry}-${item}`
\* (the latter, which is not commutative, as carry * 10 + item)
ApplyReducer(r, c, x) == IF r = "add" THEN c + x ELSE c * 10 + x

\* whether the user function fn throws when it is called on item x
UserThrows(fn, x) ==
  fn \in ThrowingMappers \cup ThrowingPredicates \cup ThrowingReducers /\ x % 2 = 0

\* -------------------------------------------- values of the async world
\* A value is [promise, value]: a reducer declared async returns a promise
\* of its result, and await turns a promise into the value it resolves to.
AVal(n) == [promise |-> FALSE, value |-> n]
Await(x) == [x EXCEPT !.promise = FALSE]
\* (carry, item) => carry + item   and   async (carry, item) => `${carry}-${item}`
AsyncReducers == {[fn |-> "add", promise |-> FALSE], [fn |-> "cat", promise |-> TRUE]}

\* carry + item and `${carry}-${item}` on a carry that is a promise give no number
ApplyAsyncReducer(r, carry, item) ==
  [promise |-> r.promise,
   value |-> IF carry.promise \/ item.promise THEN Undefined
             ELSE ApplyReducer(r.fn, carry.value, item.value)]

\* async reducers that throw UserError on an even item: a plain function
\* throws inside the call, an async function returns a rejected promise
ThrowingAsyncReducers ==
  {[fn |-> "redThrow", promise |-> FALSE], [fn |-> "redThrow", promise |-> TRUE]}

InFlight == 1        \* the tests await each next() before the following one

\* ----------------------------------------------------------- the producer
FreshIter == [pos |-> 0, fin |-> FALSE, nexts |-> 0, recv |-> <<>>]

\* One next(...args) of the generator object `it` of generator function g.
\* The result is [it, done, value, thrown]; recv collects the args received.
Generator_next(g, it, args) ==
  LET seen == [it EXCEPT !.nexts = @ + 1, !.recv = Append(@, args)]
  IN  IF it.fin
        THEN [it |-> seen, done |-> TRUE, value |-> Undefined, thrown |-> FALSE]
      ELSE IF it.pos < Len(g.elems)
        THEN [it |-> [seen EXCEPT !.pos = @ + 1], done |-> FALSE,
              value |-> g.elems[it.pos + 1], thrown |-> FALSE]
      ELSE IF g.ending = "throw"
        THEN [it |-> [seen EXCEPT !.fin = TRUE], done |-> FALSE,
              value |-> ProducerError, thrown |-> TRUE]
      ELSE [it |-> [seen EXCEPT !.fin = TRUE], done |-> TRUE,
            value |-> Undefined, thrown |-> FALSE]

\* -------------------------------------------------------------- the nodes
NewNode(kind, fn, initial) ==
  [kind |-> kind, fn |-> fn, initial |-> initial, state |-> initial,
   calls |-> 0, threw |-> 0, nexts |-> 0]

\* c = [it, chain]; NodeNext(c, k, args) is next(...args) on chain[k]
\* (on the generator object when k = 0) and gives [c, done, value, thrown].
RECURSIVE NodeNext(_, _, _)
RECURSIVE FilterLoop(_, _, _)

Entered(c, k) == [c EXCEPT !.chain[k].nexts = @ + 1]

\* the call of the user function of chain[k] on result.value throws: nothing
\* in next() catches it, so it leaves next() in place of a result
Thrown(result, k) ==
  [result EXCEPT !.c.chain[k].calls = @ + 1, !.c.chain[k].threw = @ + 1,
                 !.thrown = TRUE, !.value = UserError]

\* as ReducingIterator_next, with the carry never stored in this.state
ReducingIterator_next_stale(c, k, args) ==
  LET result == NodeNext(Entered(c, k), k - 1, args)
  IN  IF result.thrown THEN result
      ELSE IF ~result.done
        THEN LET node == result.c.chain[k]
                 state == ApplyReducer(node.fn, node.state, result.value)
             IN  [result EXCEPT !.c.chain[k].calls = @ + 1,
                                !.value = state]
      ELSE result

\* as ReducingIterator_next, with the upstream's error caught and turned
\* into a terminal result
ReducingIterator_next_catch(c, k, args) ==
  LET result == NodeNext(Entered(c, k), k - 1, args)
  IN  IF result.thrown
        THEN [result EXCEPT !.thrown = FALSE, !.done = TRUE, !.value = Undefined]
      ELSE IF ~result.done
        THEN LET node == result.c.chain[k]
                 state == ApplyReducer(node.fn, node.state, result.value)
             IN  [result EXCEPT !.c.chain[k].state = state,
                                !.c.chain[k].calls = @ + 1,
                                !.value = state]
      ELSE result

\* as ReducingIterator_next, with this.state set back to the initial value
\* when the upstream is done
ReducingIterator_next_reset(c, k, args) ==
  LET result == NodeNext(Entered(c, k), k - 1, args)
  IN  IF result.thrown THEN result
      ELSE IF ~result.done
        THEN LET node == result.c.chain[k]
                 state == ApplyReducer(node.fn, node.state, result.value)
             IN  [result EXCEPT !.c.chain[k].state = state,
                                !.c.chain[k].calls = @ + 1,
                                !.value = state]
      ELSE [result EXCEPT !.c.chain[k].state = result.c.chain[k].initial]

\* as ReducingIterator_next, with the upstream pulled twice and the first
\* result dropped
ReducingIterator_next_double(c, k, args) ==
  LET first == NodeNext(Entered(c, k), k - 1, args)
      result == NodeNext(first.c, k - 1, args)
  IN  IF result.thrown THEN result
      ELSE IF ~result.done
        THEN LET node == result.c.chain[k]
                 state == ApplyReducer(node.fn, node.state, result.value)
             IN  [result EXCEPT !.c.chain[k].state = state,
                                !.c.chain[k].calls = @ + 1,
                                !.value = state]
      ELSE result

ReducingIterator_next(c, k, args) ==
  LET result == NodeNext(Entered(c, k), k - 1, args)
  IN  IF result.thrown THEN result
      ELSE IF ~result.done /\ UserThrows(result.c.chain[k].fn, result.value)
        THEN Thrown(result, k)
      ELSE IF ~result.done
        THEN LET node == result.c.chain[k]
                 state == ApplyReducer(node.fn, node.state, result.value)
             IN  [result EXCEPT !.c.chain[k].state = state,
                                !.c.chain[k].calls = @ + 1,
                                !.value = state]
      ELSE result

\* as MappingIterator_next, with the upstream value passed on unmapped
MappingIterator_next_unmapped(c, k, args) ==
  LET result == NodeNext(Entered(c, k), k - 1, args)
  IN  IF result.thrown THEN result
      ELSE IF ~result.done
        THEN [result EXCEPT !.c.chain[k].calls = @ + 1]
      ELSE result

\* as MappingIterator_next, with the upstream pulled as this.iterable.next()
MappingIterator_next_noargs(c, k, args) ==
  LET result == NodeNext(Entered(c, k), k - 1, <<>>)
  IN  IF result.thrown THEN result
      ELSE IF ~result.done
        THEN [result EXCEPT !.c.chain[k].calls = @ + 1,
                            !.value = ApplyMapper(result.c.chain[k].fn, result.value)]
      ELSE result

\* as MappingIterator_next, with the mapper run on the terminal result too
MappingIterator_next_mapsDone(c, k, args) ==
  LET result == NodeNext(Entered(c, k), k - 1, args)
  IN  IF result.thrown THEN result
      ELSE [result EXCEPT !.c.chain[k].calls = @ + 1,
                          !.value = ApplyMapper(result.c.chain[k].fn, result.value)]

MappingIterator_next(c, k, args) ==
  LET result == NodeNext(Entered(c, k), k - 1, args)
  IN  IF result.thrown THEN result
      ELSE IF ~result.done /\ UserThrows(result.c.chain[k].fn, result.value)
        THEN Thrown(result, k)
      ELSE IF ~result.done
        THEN [result EXCEPT !.c.chain[k].calls = @ + 1,
                            !.value = ApplyMapper(result.c.chain[k].fn, result.value)]
      ELSE result

\* while (!result.done && !this.filterer(result.value)) result = next(...args)
\* as FilterLoop, with the negation of the predicate dropped
FilterLoop_inverted(result, k, args) ==
  IF result.thrown \/ result.done THEN result
  ELSE LET tested == [result EXCEPT !.c.chain[k].calls = @ + 1]
       IN  IF ~ApplyPredicate(result.c.chain[k].fn, result.value) THEN tested
           ELSE FilterLoop(NodeNext(tested.c, k - 1, args), k, args)

\* as FilterLoop, with the predicate also run on the terminal result
FilterLoop_doWhile(result, k, args) ==
  IF result.thrown THEN result
  ELSE LET tested == [result EXCEPT !.c.chain[k].calls = @ + 1]
       IN  IF result.done THEN tested
           ELSE IF ApplyPredicate(result.c.chain[k].fn, result.value) THEN tested
           ELSE FilterLoop(NodeNext(tested.c, k - 1, args), k, args)

\* as FilterLoop, with the pull inside the loop made as this.iterable.next()
FilterLoop_noargs(result, k, args) ==
  IF result.thrown \/ result.done THEN result
  ELSE LET tested == [result EXCEPT !.c.chain[k].calls = @ + 1]
       IN  IF ApplyPredicate(result.c.chain[k].fn, result.value) THEN tested
           ELSE FilterLoop(NodeNext(tested.c, k - 1, <<>>), k, args)

\* as FilterLoop, with the predicate run a second time on the value it accepted
FilterLoop_twice(result, k, args) ==
  IF result.thrown \/ result.done THEN result
  ELSE LET tested == [result EXCEPT !.c.chain[k].calls = @ + 1]
       IN  IF ApplyPredicate(result.c.chain[k].fn, result.value)
             THEN [tested EXCEPT !.c.chain[k].calls = @ + 1]
           ELSE FilterLoop(NodeNext(tested.c, k - 1, args), k, args)

\* as FilterLoop, with the next candidate fetched before the accepted value
\* is returned
FilterLoop_readAhead(result, k, args) ==
  IF result.thrown \/ result.done THEN result
  ELSE LET tested == [result EXCEPT !.c.chain[k].calls = @ + 1]
       IN  IF ApplyPredicate(result.c.chain[k].fn, result.value)
             THEN [tested EXCEPT !.c = NodeNext(tested.c, k - 1, args).c]
           ELSE FilterLoop(NodeNext(tested.c, k - 1, args), k, args)

\* as FilterLoop, with the upstream pulled once more after it said done
FilterLoop_pullAfterDone(result, k, args) ==
  IF result.thrown THEN result
  ELSE IF result.done THEN NodeNext(result.c, k - 1, args)
  ELSE LET tested == [result EXCEPT !.c.chain[k].calls = @ + 1]
       IN  IF ApplyPredicate(result.c.chain[k].fn, result.value) THEN tested
           ELSE FilterLoop(NodeNext(tested.c, k - 1, args), k, args)

\* as FilterLoop, with an error of the predicate caught and the value skipped
FilterLoop_skipThrown(result, k, args) ==
  IF result.thrown \/ result.done THEN result
  ELSE IF UserThrows(result.c.chain[k].fn, result.value)
    THEN FilterLoop(NodeNext([Thrown(result, k) EXCEPT !.thrown = FALSE].c, k - 1, args),
                    k, args)
  ELSE LET tested == [result EXCEPT !.c.chain[k].calls = @ + 1]
       IN  IF ApplyPredicate(result.c.chain[k].fn, result.value) THEN tested
           ELSE FilterLoop(NodeNext(tested.c, k - 1, args), k, args)

FilterLoop(result, k, args) ==
  IF result.thrown \/ result.done THEN result
  ELSE IF UserThrows(result.c.chain[k].fn, result.value) THEN Thrown(result, k)
  ELSE LET tested == [result EXCEPT !.c.chain[k].calls = @ + 1]
       IN  IF ApplyPredicate(result.c.chain[k].fn, result.value) THEN tested
           ELSE FilterLoop(NodeNext(tested.c, k - 1, args), k, args)

\* as FilteringIterator_next, with `if` for `while`: one candidate skipped
FilteringIterator_next_if(c, k, args) ==
  LET result == NodeNext(Entered(c, k), k - 1, args)
  IN  IF result.thrown \/ result.done THEN result
      ELSE LET tested == [result EXCEPT !.c.chain[k].calls = @ + 1]
           IN  IF ApplyPredicate(result.c.chain[k].fn, result.value) THEN tested
               ELSE NodeNext(tested.c, k - 1, args)

\* as FilteringIterator_next, with a rejected candidate ending the sequence
FilteringIterator_next_takeWhile(c, k, args) ==
  LET result == NodeNext(Entered(c, k), k - 1, args)
  IN  IF result.thrown \/ result.done THEN result
      ELSE LET tested == [result EXCEPT !.c.chain[k].calls = @ + 1]
           IN  IF ApplyPredicate(result.c.chain[k].fn, result.value) THEN tested
               ELSE [tested EXCEPT !.done = TRUE, !.value = Undefined]

FilteringIterator_next(c, k, args) ==
  FilterLoop(NodeNext(Entered(c, k), k - 1, args), k, args)

NodeNext(c, k, args) ==
  IF k = 0
    THEN LET r == Generator_next(gen, c.it, args)
         IN  [c |-> [c EXCEPT !.it = r.it], done |-> r.done,
              value |-> r.value, thrown |-> r.thrown]
  ELSE IF c.chain[k].kind = "map" THEN MappingIterator_next(c, k, args)
  ELSE IF c.chain[k].kind = "filter" THEN FilteringIterator_next(c, k, args)
  ELSE ReducingIterator_next(c, k, args)

\* ----------------------------------------------------------- construction
NoResult == [done |-> FALSE, value |-> Undefined, thrown |-> FALSE]
NoEager == [ran |-> FALSE, reducer |-> "add", initial |-> 0,
            result |-> Undefined, calls |-> 0, thrown |-> FALSE, error |-> Undefined]

NoArray == [ran |-> FALSE, by |-> "", fn |-> "", it |-> FreshIter,
            result |-> <<>>, calls |-> 0, thrown |-> FALSE, error |-> Undefined]

NoMade == [by |-> "", outcome |-> "none", error |-> "", message |-> ""]
NoAResult == [done |-> FALSE, value |-> AVal(Undefined), thrown |-> FALSE]

InitAsyncVars ==
  /\ made = NoMade
  /\ achain = <<>>
  /\ aiter = FreshIter
  /\ flight = <<>>
  /\ aout = <<>>
  /\ alast = NoAResult
  /\ adones = 0
  /\ overlapped = FALSE

NoLoop == [ran |-> FALSE, on |-> 0, values |-> <<>>, broke |-> FALSE]

InitShareVars ==
  /\ heap = <<>>
  /\ gave = << <<>> >>
  /\ loop = NoLoop

Init ==
  /\ arg = GeneratorArg
  /\ InitAsyncVars
  /\ InitShareVars
  /\ lastArgs = <<>>
  /\ gen \in [elems : Elems, ending : Endings]
  /\ iter = FreshIter
  /\ chain = <<>>
  /\ built = <<>>
  /\ out = <<>>
  /\ last = NoResult
  /\ pulls = 0
  /\ dones = 0
  /\ iter2 = FreshIter
  /\ eager = NoEager
  /\ toArray = NoArray

\* as Wrap, with the constructor pulling a first value from the upstream
Wrap_primed(node) ==
  /\ pulls = 0
  /\ chain' = Append(chain, node)
  /\ built' = Append(built, node)
  /\ iter' = Generator_next(gen, iter, <<>>).it
  /\ UNCHANGED <<gen, out, last, pulls, dones, lastArgs, iter2, eager, toArray>>
  /\ UNCHANGED <<asyncVars, shareVars>>

\* what a constructor of SyncAugmentedIterators does to the synchronous state
WrapSync(node) ==
  /\ pulls = 0
  /\ chain' = Append(chain, node)
  /\ built' = Append(built, node)
  /\ UNCHANGED <<gen, iter, out, last, pulls, dones, lastArgs, iter2, eager, toArray>>
  /\ UNCHANGED shareVars

Wrap(node) ==
  /\ WrapSync(node)
  /\ UNCHANGED asyncVars

mapIterator(mapper) ==
  /\ chain = <<>>
  /\ Wrap(NewNode("map", mapper, Undefined))

filterIterator(filterer) ==
  /\ chain = <<>>
  /\ Wrap(NewNode("filter", filterer, Undefined))

reduceIterator(reducer, initial) ==
  /\ chain = <<>>
  /\ Wrap(NewNode("reduce", reducer, initial))

\* the chaining methods of AugmentedIterator, called on the outermost node

\* as AugmentedIterator_map, with the new node built over this.iterable
\* instead of over this
AugmentedIterator_map_bypass(mapper) ==
  /\ chain # <<>> /\ Len(built) < MaxDepth
  /\ pulls = 0
  /\ chain' = Append(SubSeq(chain, 1, Len(chain) - 1), NewNode("map", mapper, Undefined))
  /\ built' = Append(built, NewNode("map", mapper, Undefined))
  /\ UNCHANGED <<gen, iter, out, last, pulls, dones, lastArgs, iter2, eager, toArray>>
  /\ UNCHANGED <<asyncVars, shareVars>>

AugmentedIterator_map(mapper) ==
  /\ chain # <<>> /\ Len(chain) < MaxDepth
  /\ Wrap(NewNode("map", mapper, Undefined))

AugmentedIterator_filter(filterer) ==
  /\ chain # <<>> /\ Len(chain) < MaxDepth
  /\ Wrap(NewNode("filter", filterer, Undefined))

AugmentedIterator_reduce(reducer, initial) ==
  /\ chain # <<>> /\ Len(chain) < MaxDepth
  /\ Wrap(NewNode("reduce", reducer, initial))

\* ------------------------------------------------------------ the consumer
\* One next(...args) on the outermost node, as the for-of loops, Array.from
\* and the explicit next(10) calls of the tests make.
ConsumerNext(args) ==
  /\ chain # <<>>
  /\ dones <= MaxDonePulls
  /\ LET r == NodeNext([it |-> [iter EXCEPT !.recv = <<>>], chain |-> chain],
                       Len(chain), args)
     IN  /\ iter' = r.c.it
         /\ chain' = r.c.chain
         /\ last' = [done |-> r.done, value |-> r.value, thrown |-> r.thrown]
         /\ out' = IF ~r.thrown /\ ~r.done THEN Append(out, r.value) ELSE out
         /\ pulls' = pulls + 1
         /\ dones' = IF ~r.thrown /\ r.done THEN dones + 1 ELSE dones
  /\ lastArgs' = args
  /\ UNCHANGED <<gen, built, iter2, eager, toArray>>
  /\ UNCHANGED <<asyncVars, shareVars>>

\* Array.from(node) and the for-of loops of the tests over a node built on
\* a fresh generator object: the values yielded before done (or a throw).
RECURSIVE DrainLoop(_, _, _)
DrainLoop(c, k, results) ==
  LET r == NodeNext(c, k, <<>>)
  IN  IF r.thrown \/ r.done THEN results
      ELSE DrainLoop(r.c, k, Append(results, r.value))

Drain(nodes) == DrainLoop([it |-> FreshIter, chain |-> nodes], Len(nodes), <<>>)

\* ------------------------------------------------------ the eager reducer
\* for (const a of iterator) result = reducer(result, a): the loop calls
\* next() without arguments until done; a throw of next() leaves the loop.
RECURSIVE EagerLoop(_, _, _, _)
\* as EagerLoop, with the reducer called as reducer(a, result)
EagerLoop_swapped(it, reducer, result, calls) ==
  LET r == Generator_next(gen, it, <<>>)
  IN  IF r.thrown
        THEN [it |-> r.it, result |-> Undefined, calls |-> calls, thrown |-> TRUE,
              error |-> r.value]
      ELSE IF r.done
        THEN [it |-> r.it, result |-> result, calls |-> calls, thrown |-> FALSE,
              error |-> Undefined]
      ELSE EagerLoop(r.it, reducer, ApplyReducer(reducer, r.value, result), calls + 1)

\* as EagerLoop, with the loop left after the first element
EagerLoop_once(it, reducer, result, calls) ==
  LET r == Generator_next(gen, it, <<>>)
  IN  IF r.thrown
        THEN [it |-> r.it, result |-> Undefined, calls |-> calls, thrown |-> TRUE,
              error |-> r.value]
      ELSE IF r.done
        THEN [it |-> r.it, result |-> result, calls |-> calls, thrown |-> FALSE,
              error |-> Undefined]
      ELSE [it |-> r.it, result |-> ApplyReducer(reducer, result, r.value),
            calls |-> calls + 1, thrown |-> FALSE, error |-> Undefined]

\* as EagerLoop, with the error of next() caught and the result so far returned
EagerLoop_partial(it, reducer, result, calls) ==
  LET r == Generator_next(gen, it, <<>>)
  IN  IF r.thrown \/ r.done
        THEN [it |-> r.it, result |-> result, calls |-> calls, thrown |-> FALSE,
              error |-> Undefined]
      ELSE EagerLoop(r.it, reducer, ApplyReducer(reducer, result, r.value), calls + 1)

EagerLoop(it, reducer, result, calls) ==
  LET r == Generator_next(gen, it, <<>>)
  IN  IF r.thrown
        THEN [it |-> r.it, result |-> Undefined, calls |-> calls, thrown |-> TRUE,
              error |-> r.value]
      ELSE IF r.done
        THEN [it |-> r.it, result |-> result, calls |-> calls, thrown |-> FALSE,
              error |-> Undefined]
      ELSE EagerLoop(r.it, reducer, ApplyReducer(reducer, result, r.value), calls + 1)

\* as eagerlyReduceIterator, with result left uninitialised before the loop
eagerlyReduceIterator_noinitial(reducer, initial) ==
  /\ ~eager.ran
  /\ LET e == EagerLoop(iter2, reducer, Undefined, 0)
     IN  /\ iter2' = e.it
         /\ eager' = [ran |-> TRUE, reducer |-> reducer, initial |-> initial,
                      result |-> e.result, calls |-> e.calls, thrown |-> e.thrown,
                      error |-> e.error]
  /\ UNCHANGED <<gen, iter, chain, built, out, last, pulls, dones, lastArgs, toArray>>
  /\ UNCHANGED <<asyncVars, shareVars>>

eagerlyReduceIterator(reducer, initial) ==
  /\ ~eager.ran
  /\ LET e == EagerLoop(iter2, reducer, initial, 0)
     IN  /\ iter2' = e.it
         /\ eager' = [ran |-> TRUE, reducer |-> reducer, initial |-> initial,
                      result |-> e.result, calls |-> e.calls, thrown |-> e.thrown,
                      error |-> e.error]
  /\ UNCHANGED <<gen, iter, chain, built, out, last, pulls, dones, lastArgs, toArray>>
  /\ UNCHANGED <<asyncVars, shareVars>>

\* ------------------------------------------------- the eager array helpers
\* the reducers mapIteratorToArray and filterIteratorToArray hand to
\* eagerlyReduceIterator: carry.push(mapper(item)); return carry

\* as PushMapped, with carry.unshift for carry.push
PushMapped_unshift(mapper, carry, item) == <<ApplyMapper(mapper, item)>> \o carry

PushMapped(mapper, carry, item) == Append(carry, ApplyMapper(mapper, item))

\* as PushAccepted, with the item pushed whatever filter(item) returns
PushAccepted_always(filter, carry, item) == Append(carry, item)

\* if (filter(item)) carry.push(item); return carry
PushAccepted(filter, carry, item) ==
  IF ApplyPredicate(filter, item) THEN Append(carry, item) ELSE carry

\* the loop of eagerlyReduceIterator run with one of these two reducers and
\* [] as the initial value; calls counts the calls of mapper / filter
RECURSIVE ArrayLoop(_, _, _, _, _)
ArrayLoop(it, by, fn, result, calls) ==
  LET r == Generator_next(gen, it, <<>>)
  IN  IF r.thrown
        THEN [it |-> r.it, result |-> <<>>, calls |-> calls, thrown |-> TRUE,
              error |-> r.value]
      ELSE IF r.done
        THEN [it |-> r.it, result |-> result, calls |-> calls, thrown |-> FALSE,
              error |-> Undefined]
      ELSE ArrayLoop(r.it, by, fn,
                     IF by = "mapIteratorToArray" THEN PushMapped(fn, result, r.value)
                                                  ELSE PushAccepted(fn, result, r.value),
                     calls + 1)

ToArray(by, fn) ==
  /\ ~toArray.ran
  /\ LET e == ArrayLoop(toArray.it, by, fn, <<>>, 0)
     IN  toArray' = [ran |-> TRUE, by |-> by, fn |-> fn, it |-> e.it,
                     result |-> e.result, calls |-> e.calls, thrown |-> e.thrown,
                     error |-> e.error]
  /\ UNCHANGED <<gen, iter, chain, built, out, last, pulls, dones, lastArgs, iter2, eager>>
  /\ UNCHANGED <<asyncVars, shareVars>>

mapIteratorToArray(mapper) == ToArray("mapIteratorToArray", mapper)

filterIteratorToArray(filter) == ToArray("filterIteratorToArray", filter)

\* ------------------------------------------- constructors on any argument
Made(by, outcome, error, message) ==
  [by |-> by, outcome |-> outcome, error |-> error, message |-> message]

Construct_throw(by, error, message) ==
  /\ made' = Made(by, "throws", error, message)
  /\ UNCHANGED <<syncVars, shareVars>>
  /\ UNCHANGED <<arg, achain, aiter, flight, aout, alast, adones, overlapped>>

Construct_sync(by, node) ==
  /\ chain = <<>>
  /\ WrapSync(node)
  /\ made' = Made(by, "sync", "", "")
  /\ UNCHANGED <<arg, achain, aiter, flight, aout, alast, adones, overlapped>>

NewAsyncNode(reducer, initial) ==
  [kind |-> "reduce", fn |-> reducer, initial |-> AVal(initial),
   state |-> AVal(initial), calls |-> 0, threw |-> 0, nexts |-> 0]

\* the chaining methods are called before the first next()
Unpulled == flight = <<>> /\ aiter.nexts = 0

Construct_async(by, node) ==
  /\ Unpulled
  /\ achain' = Append(achain, node)
  /\ made' = Made(by, "async", "", "")
  /\ UNCHANGED <<syncVars, shareVars>>
  /\ UNCHANGED <<arg, aiter, flight, aout, alast, adones, overlapped>>

\* reduceIterator(arg, reducer, initial)
reduceIterator_on(reducer, initial) ==
  /\ made.outcome = "none"
  /\ LET branch == reduceIterator_dispatch(arg)
     IN  IF branch = "sync"
           THEN Construct_sync("reduceIterator", NewNode("reduce", reducer.fn, initial))
         ELSE IF branch = "async"
           THEN Construct_async("reduceIterator", NewAsyncNode(reducer, initial))
         ELSE IF branch = InTypeError
           THEN Construct_throw("reduceIterator", "TypeError", InTypeError)
         ELSE Construct_throw("reduceIterator", "Error", NeitherMessage)

\* mapIterator(arg, mapper): new SyncAugmentedIterators._MappingIterator
mapIterator_on(mapper) ==
  /\ made.outcome = "none"
  /\ IF GetIterator(arg) = "sync"
       THEN Construct_sync("mapIterator", NewNode("map", mapper, Undefined))
       ELSE Construct_throw("mapIterator", "TypeError", GetIterator(arg))

\* filterIterator(arg, filterer): new SyncAugmentedIterators._FilteringIterator
filterIterator_on(filterer) ==
  /\ made.outcome = "none"
  /\ IF GetIterator(arg) = "sync"
       THEN Construct_sync("filterIterator", NewNode("filter", filterer, Undefined))
       ELSE Construct_throw("filterIterator", "TypeError", GetIterator(arg))

\* ------------------------- the chaining methods of AugmentedAsyncIterator
AugmentedAsyncIterator_map(mapper) ==
  /\ achain # <<>> /\ Unpulled
  /\ Construct_throw("AugmentedAsyncIterator.map", "Error", TodoMessage)

AugmentedAsyncIterator_filter(filterer) ==
  /\ achain # <<>> /\ Unpulled
  /\ Construct_throw("AugmentedAsyncIterator.filter", "Error", TodoMessage)

\* return reduceIterator(this, reducer, initial)
AugmentedAsyncIterator_reduce(reducer, initial) ==
  /\ achain # <<>> /\ Len(achain) < MaxDepth
  /\ LET branch == reduceIterator_dispatch(AsyncNodeArg)
     IN  IF branch = "async"
           THEN Construct_async("AugmentedAsyncIterator.reduce", NewAsyncNode(reducer, initial))
         ELSE Construct_throw("AugmentedAsyncIterator.reduce", "Error", branch)

\* ------------------------------- next() of the asynchronous reducing node
\* A call in flight is [args, pc, level, result, pending, failed]: pc =
\* "upstream" while the async generator has not answered, "resume" when the
\* node at `level` can run on after `await this.iterable.next(...args)`,
\* "reducer" while that node awaits what its reducer returned (pending, a
\* rejected promise when failed).
NewCall(args) ==
  [args |-> args, pc |-> "upstream", level |-> 0, result |-> NoAResult,
   pending |-> AVal(Undefined), failed |-> FALSE]

\* the promise next() returned is rejected with the user's error
Rejection == [done |-> FALSE, value |-> AVal(UserError), thrown |-> TRUE]

RemoveAt(q, i) == SubSeq(q, 1, i - 1) \o SubSeq(q, i + 1, Len(q))

\* The consumer calls next(...args) on the outermost node: every node calls
\* its upstream's next before its first await, down to the async generator.
AsyncConsumerNextUpTo(limit, args) ==
  /\ achain # <<>>
  /\ Len(flight) < limit
  /\ adones <= MaxDonePulls
  /\ achain' = [k \in 1..Len(achain) |-> [achain[k] EXCEPT !.nexts = @ + 1]]
  /\ flight' = Append(flight, NewCall(args))
  /\ aiter' = [aiter EXCEPT !.recv = <<>>]
  /\ overlapped' = (overlapped \/ flight # <<>>)
  /\ UNCHANGED <<syncVars, shareVars>>
  /\ UNCHANGED <<arg, made, aout, alast, adones>>

\* the consumer awaits each next() before it calls the following one
AsyncConsumerNext(args) == AsyncConsumerNextUpTo(InFlight, args)

\* the consumer calls next() without awaiting the calls it made before
AsyncConsumerNext_unawaited(args) == AsyncConsumerNextUpTo(MaxInFlight, args)

\* The async generator answers its oldest unanswered next, in request order.
AsyncGenerator_settle ==
  \E i \in 1..Len(flight) :
    /\ flight[i].pc = "upstream"
    /\ \A j \in 1..(i - 1) : flight[j].pc # "upstream"
    /\ LET r == Generator_next(gen, aiter, flight[i].args)
       IN  /\ aiter' = r.it
           /\ flight' = [flight EXCEPT ![i].pc = "resume", ![i].level = 1,
                           ![i].result = [done |-> r.done, value |-> AVal(r.value),
                                          thrown |-> r.thrown]]
    /\ UNCHANGED <<syncVars, shareVars>>
    /\ UNCHANGED <<arg, made, achain, aout, alast, adones, overlapped>>

\* The call flight[i] leaves the node at its level with result r: the
\* promise of the outermost node settles, or the next node out resumes.
Deliver(i, r, nodes) ==
  IF flight[i].level = Len(achain)
    THEN /\ flight' = RemoveAt(flight, i)
         /\ achain' = nodes
         /\ alast' = r
         /\ aout' = IF ~r.thrown /\ ~r.done THEN Append(aout, r.value) ELSE aout
         /\ adones' = IF ~r.thrown /\ r.done THEN adones + 1 ELSE adones
    ELSE /\ flight' = [flight EXCEPT ![i].pc = "resume", ![i].level = @ + 1,
                         ![i].result = r]
         /\ achain' = nodes
         /\ UNCHANGED <<aout, alast, adones>>

\* The async generator settles its promises in request order, so the calls
\* awaiting it resume in that order: flight[i] is the oldest of them.
FirstToResume(i) ==
  flight[i].level = 1 =>
    \A j \in 1..(i - 1) : ~(flight[j].level = 1 /\ flight[j].pc = "resume")

\* const result = await this.iterable.next(...args) has resolved (or
\* rejected); if (!result.done) the reducer is called on this.state.
\* as AsyncReducingIterator_resume, with the reducer called on the initial
\* value instead of this.state
AsyncReducingIterator_resume_initial ==
  \E i \in 1..Len(flight) :
    /\ flight[i].pc = "resume"
    /\ FirstToResume(i)
    /\ LET k == flight[i].level
           r == flight[i].result
       IN  IF r.thrown \/ r.done
             THEN Deliver(i, r, achain)
             ELSE /\ flight' = [flight EXCEPT ![i].pc = "reducer",
                                  ![i].pending = ApplyAsyncReducer(achain[k].fn,
                                                   achain[k].initial, r.value)]
                  /\ achain' = [achain EXCEPT ![k].calls = @ + 1]
                  /\ UNCHANGED <<aout, alast, adones>>
    /\ UNCHANGED <<syncVars, shareVars>>
    /\ UNCHANGED <<arg, made, aiter, overlapped>>

AsyncReducingIterator_resume ==
  \E i \in 1..Len(flight) :
    /\ flight[i].pc = "resume"
    /\ FirstToResume(i)
    /\ LET k == flight[i].level
           r == flight[i].result
       IN  IF r.thrown \/ r.done
             THEN Deliver(i, r, achain)
           ELSE IF UserThrows(achain[k].fn.fn, r.value.value) /\ ~achain[k].fn.promise
             THEN Deliver(i, Rejection,
                          [achain EXCEPT ![k].calls = @ + 1, ![k].threw = @ + 1])
           ELSE IF UserThrows(achain[k].fn.fn, r.value.value)
             THEN /\ flight' = [flight EXCEPT ![i].pc = "reducer", ![i].failed = TRUE,
                                  ![i].pending = [promise |-> TRUE, value |-> UserError]]
                  /\ achain' = [achain EXCEPT ![k].calls = @ + 1, ![k].threw = @ + 1]
                  /\ UNCHANGED <<aout, alast, adones>>
             ELSE /\ flight' = [flight EXCEPT ![i].pc = "reducer",
                                  ![i].pending = ApplyAsyncReducer(achain[k].fn,
                                                   achain[k].state, r.value)]
                  /\ achain' = [achain EXCEPT ![k].calls = @ + 1]
                  /\ UNCHANGED <<aout, alast, adones>>
    /\ UNCHANGED <<syncVars, shareVars>>
    /\ UNCHANGED <<arg, made, aiter, overlapped>>

\* as AsyncReducingIterator_assign, with the await before this.reducer(...)
\* left out
AsyncReducingIterator_assign_noawait ==
  \E i \in 1..Len(flight) :
    /\ flight[i].pc = "reducer"
    /\ LET k == flight[i].level
           state == flight[i].pending
       IN  Deliver(i, [flight[i].result EXCEPT !.value = state],
                   [achain EXCEPT ![k].state = state])
    /\ UNCHANGED <<syncVars, shareVars>>
    /\ UNCHANGED <<arg, made, aiter, overlapped>>

\* as AsyncReducingIterator_assign, with a rejection of the reducer's
\* promise caught and what it was rejected with taken as the new carry
AsyncReducingIterator_assign_caught ==
  \E i \in 1..Len(flight) :
    /\ flight[i].pc = "reducer"
    /\ LET k == flight[i].level
           state == Await(flight[i].pending)
       IN  Deliver(i, [[flight[i].result EXCEPT !.value = state]
                         EXCEPT !.thrown = flight[i].failed],
                   [achain EXCEPT ![k].state = state])
    /\ UNCHANGED <<syncVars, shareVars>>
    /\ UNCHANGED <<arg, made, aiter, overlapped>>

\* this.state = await this.reducer(...) ; return {...result, value: this.state}
\* (the await of a rejected promise throws before this.state is assigned)
AsyncReducingIterator_assign ==
  \E i \in 1..Len(flight) :
    /\ flight[i].pc = "reducer"
    /\ LET k == flight[i].level
           state == Await(flight[i].pending)
       IN  IF flight[i].failed
             THEN Deliver(i, Rejection, achain)
             ELSE Deliver(i, [flight[i].result EXCEPT !.value = state],
                          [achain EXCEPT ![k].state = state])
    /\ UNCHANGED <<syncVars, shareVars>>
    /\ UNCHANGED <<arg, made, aiter, overlapped>>

Next ==
  \/ \E f \in Mappers : mapIterator(f)
  \/ \E g \in Predicates : filterIterator(g)
  \/ \E r \in Reducers, i \in Initials : reduceIterator(r, i)
  \/ \E f \in Mappers : AugmentedIterator_map(f)
  \/ \E g \in Predicates : AugmentedIterator_filter(g)
  \/ \E r \in Reducers, i \in Initials : AugmentedIterator_reduce(r, i)
  \/ \E a \in NextArgs : ConsumerNext(a)

Spec == Init /\ [][Next]_vars

\* One node over the producer next to the eager helpers over a fresh
\* generator object of the same generator function.
NextEager ==
  \/ \E f \in Mappers : mapIterator(f)
  \/ \E g \in Predicates : filterIterator(g)
  \/ \E r \in Reducers, i \in Initials : reduceIterator(r, i)
  \/ \E a \in NextArgs : ConsumerNext(a)
  \/ \E r \in Reducers, i \in Initials : eagerlyReduceIterator(r, i)
  \/ \E f \in Mappers : mapIteratorToArray(f)
  \/ \E g \in Predicates : filterIteratorToArray(g)

SpecEager == Init /\ [][NextEager]_vars

\* Chains whose user functions may throw.
NextThrow ==
  \/ \E f \in Mappers \cup ThrowingMappers : mapIterator(f)
  \/ \E g \in ThrowingPredicates : filterIterator(g)
  \/ \E r \in ThrowingReducers, i \in Initials : reduceIterator(r, i)
  \/ \E f \in Mappers \cup ThrowingMappers : AugmentedIterator_map(f)
  \/ \E g \in ThrowingPredicates : AugmentedIterator_filter(g)
  \/ \E r \in ThrowingReducers, i \in Initials : AugmentedIterator_reduce(r, i)
  \/ \E a \in NextArgs : ConsumerNext(a)

SpecThrow == Init /\ [][NextThrow]_vars

\* The constructors called on any argument, and the asynchronous nodes.
InitAsync ==
  /\ arg \in ProducerArgs
  /\ InitAsyncVars
  /\ InitShareVars
  /\ lastArgs = <<>>
  /\ gen \in [elems : Elems, ending : Endings]
  /\ iter = FreshIter
  /\ chain = <<>>
  /\ built = <<>>
  /\ out = <<>>
  /\ last = NoResult
  /\ pulls = 0
  /\ dones = 0
  /\ iter2 = FreshIter
  /\ eager = NoEager
  /\ toArray = NoArray

NextAsync ==
  \/ \E r \in AsyncReducers, i \in Initials : reduceIterator_on(r, i)
  \/ \E f \in Mappers : mapIterator_on(f)
  \/ \E g \in Predicates : filterIterator_on(g)
  \/ \E f \in Mappers : AugmentedAsyncIterator_map(f)
  \/ \E g \in Predicates : AugmentedAsyncIterator_filter(g)
  \/ \E r \in AsyncReducers, i \in Initials : AugmentedAsyncIterator_reduce(r, i)
  \/ \E a \in NextArgs : AsyncConsumerNext(a)
  \/ AsyncGenerator_settle
  \/ AsyncReducingIterator_resume
  \/ AsyncReducingIterator_assign
  \/ \E a \in NextArgs : ConsumerNext(a)

SpecAsync == InitAsync /\ [][NextAsync]_vars

\* One asynchronous reducing node whose reducer suspends (its promise
\* settles at a time of its own), pulled by a consumer that does not await.
SuspendingReducers == {[fn |-> "cat", promise |-> TRUE]}

InitOverlap ==
  /\ InitAsync
  /\ arg = AsyncGeneratorArg

NextOverlap ==
  \/ \E r \in SuspendingReducers, i \in Initials : reduceIterator_on(r, i)
  \/ AsyncConsumerNext_unawaited(<<>>)
  \/ AsyncGenerator_settle
  \/ AsyncReducingIterator_resume
  \/ AsyncReducingIterator_assign

SpecOverlap == InitOverlap /\ [][NextOverlap]_vars

\* Reducing nodes, synchronous and asynchronous, whose reducer may throw.
InitReduceThrow ==
  /\ InitAsync
  /\ arg \in {GeneratorArg, AsyncGeneratorArg}

NextReduceThrow ==
  \/ \E r \in ThrowingAsyncReducers, i \in Initials : reduceIterator_on(r, i)
  \/ \E r \in ThrowingReducers, i \in Initials : AugmentedIterator_reduce(r, i)
  \/ \E r \in ThrowingAsyncReducers, i \in Initials : AugmentedAsyncIterator_reduce(r, i)
  \/ \E a \in NextArgs : ConsumerNext(a)
  \/ \E a \in NextArgs : AsyncConsumerNext(a)
  \/ AsyncGenerator_settle
  \/ AsyncReducingIterator_resume
  \/ AsyncReducingIterator_assign

SpecReduceThrow == InitReduceThrow /\ [][NextReduceThrow]_vars

\* ------------------------------------------ nodes that share an upstream
\* Objects are numbered: 0 is the generator object `iter`, i >= 1 is
\* heap[i].  A node object is a node record with two more fields:
\* iterable, the object its constructor stored in this.iterable, and on, the
\* object the constructor or chaining method was called with.
MaxNodes == 2

\* (item) => item * 2, (item) => item % 2 == 0, (carry, item) => carry + item
\* from 0: the nodes built in this part
SharedNodes ==
  {NewNode("map", "double", Undefined), NewNode("filter", "even", Undefined),
   NewNode("reduce", "add", 0)}

\* after how many values a for-of loop breaks; 0: it runs until done
Limits == {0, 1, 2}

\* as AugmentedIterator_iterator, answering with this after setting its
\* carry back to the initial value
AugmentedIterator_iterator_reset(h, i) ==
  [h |-> [h EXCEPT ![i].state = h[i].initial], obj |-> i]

\* [Symbol.iterator]() of node i: return this
AugmentedIterator_iterator(h, i) == [h |-> h, obj |-> i]

\* target[Symbol.iterator](): a generator object answers with itself too
SymbolIterator(h, target) ==
  IF target = 0 THEN [h |-> h, obj |-> 0] ELSE AugmentedIterator_iterator(h, target)

\* the objects from the generator object (left out) up to object i,
\* following this.iterable
RECURSIVE Path(_, _)
Path(h, i) == IF i = 0 THEN <<>> ELSE Append(Path(h, h[i].iterable), i)

\* next(...args) on object i: [h, it, done, value, thrown]
ObjectNext(h, it, i, args) ==
  LET path == Path(h, i)
      r == NodeNext([it |-> it, chain |-> [j \in 1..Len(path) |-> h[path[j]]]],
                    Len(path), args)
      At(o) == CHOOSE j \in 1..Len(path) : path[j] = o
  IN  [h |-> [o \in 1..Len(h) |->
                IF \E j \in 1..Len(path) : path[j] = o THEN r.c.chain[At(o)]
                ELSE h[o]],
       it |-> r.c.it, done |-> r.done, value |-> r.value, thrown |-> r.thrown]

\* as SyncConstruct, with the constructor pulling a first value from its
\* argument
SyncConstruct_primed(h, it, target, node) ==
  LET self == SymbolIterator(h, target)
      r == ObjectNext(self.h, it, self.obj, <<>>)
  IN  [h |-> Append(r.h, [kind |-> node.kind, fn |-> node.fn,
                          initial |-> node.initial, state |-> node.state,
                          calls |-> node.calls, threw |-> node.threw,
                          nexts |-> node.nexts,
                          iterable |-> self.obj, on |-> target]),
       it |-> r.it]

\* as SyncConstruct, with iterable[Symbol.iterator]() starting the producer
\* over, as an array's does
SyncConstruct_restart(h, it, target, node) ==
  LET self == SymbolIterator(h, target)
  IN  [h |-> Append(self.h, [kind |-> node.kind, fn |-> node.fn,
                             initial |-> node.initial, state |-> node.state,
                             calls |-> node.calls, threw |-> node.threw,
                             nexts |-> node.nexts,
                             iterable |-> self.obj, on |-> target]),
       it |-> [it EXCEPT !.pos = 0]]

\* new _MappingIterator(target, fn) and its two sisters: super(), then
\* this.iterable = iterable[Symbol.iterator]()
SyncConstruct(h, it, target, node) ==
  LET self == SymbolIterator(h, target)
  IN  [h |-> Append(self.h, [kind |-> node.kind, fn |-> node.fn,
                             initial |-> node.initial, state |-> node.state,
                             calls |-> node.calls, threw |-> node.threw,
                             nexts |-> node.nexts,
                             iterable |-> self.obj, on |-> target]),
       it |-> it]

\* the values n successive next(...args) calls on object i return
RECURSIVE Yields(_, _, _, _, _)
Yields(h, it, i, args, n) ==
  IF n = 0 THEN <<>>
  ELSE LET r == ObjectNext(h, it, i, args)
       IN  (IF r.thrown \/ r.done THEN <<>> ELSE <<r.value>>)
             \o Yields(r.h, r.it, i, args, n - 1)

\* number of next() calls object i has received
Nexts(h, it, i) == IF i = 0 THEN it.nexts ELSE h[i].nexts

Entries(values, caller) ==
  [v \in 1..Len(values) |-> [value |-> values[v], to |-> caller]]

\* The consumer calls next(...args) on object i: every object under i is
\* called by the object above it (const result = this.iterable.next(...args)),
\* and what it returns goes to that caller; to = 0 stands for the consumer.
\* s = [h, it, log]; the answer is [s, done, value, thrown].
Consume(s, i, args) ==
  LET r == ObjectNext(s.h, s.it, i, args)
      path == <<0>> \o Path(s.h, i)
      Caller(j) == IF j = Len(path) THEN 0 ELSE path[j + 1]
      Level(o) == IF \E j \in 1..Len(path) : path[j] = o
                    THEN CHOOSE j \in 1..Len(path) : path[j] = o
                  ELSE 0
      Logged(n, j) ==
        IF j = 0 THEN s.log[n]
        ELSE s.log[n] \o Entries(Yields(s.h, s.it, n - 1, args,
                                        Nexts(r.h, r.it, n - 1)
                                          - Nexts(s.h, s.it, n - 1)),
                                 Caller(j))
  IN  [s |-> [h |-> r.h, it |-> r.it,
              log |-> [n \in 1..Len(s.log) |-> Logged(n, Level(n - 1))]],
       done |-> r.done, value |-> r.value, thrown |-> r.thrown]

\* as IteratorClose, with a return() on the node that closes the producer
IteratorClose_forwarded(s, obj) == [s EXCEPT !.it.fin = TRUE]

\* What leaving a for-of loop early does: it calls the iterator's return()
\* when it has one, and AugmentedIterator declares next() only.
IteratorClose(s, obj) == s

\* for (const value of obj) { ...; if (++count == limit) break; }
\* with limit = 0 for a loop that never breaks; r is what the latest
\* next() of the loop returned: [s, values, broke]
RECURSIVE ForOfLoop(_, _, _, _)
ForOfLoop(r, obj, limit, values) ==
  IF r.thrown \/ r.done
    THEN [s |-> r.s, values |-> values, broke |-> FALSE]
  ELSE IF Len(values) + 1 = limit
    THEN [s |-> IteratorClose(r.s, obj), values |-> Append(values, r.value),
          broke |-> TRUE]
  ELSE ForOfLoop(Consume(r.s, obj, <<>>), obj, limit, Append(values, r.value))

\* number of next() calls on object i that returned no value
PastEnd(i) == Nexts(heap, iter, i) - Len(gave[i + 1])

\* mapIterator(iter, mapper), filterIterator(iter, filter) and
\* reduceIterator(iter, reducer, initial) on the generator object (target
\* 0), and heap[target].map(mapper), .filter(filter), .reduce(reducer, initial).
\* The nodes after the second are sisters of the second: built on the
\* object it was built on.
Shared_construct(target, node) ==
  /\ Len(heap) < MaxNodes
  /\ target \in 0..Len(heap)
  /\ Len(heap) >= 2 => target = heap[Len(heap)].on
  /\ LET new == SyncConstruct(heap, iter, target, node)
     IN  /\ heap' = new.h
         /\ iter' = new.it
  /\ gave' = Append(gave, <<>>)
  /\ loop' = NoLoop
  /\ UNCHANGED <<gen, chain, built, out, last, pulls, dones, lastArgs, iter2, eager,
                 toArray>>
  /\ UNCHANGED asyncVars

\* next() called by the consumer on object i, a node or the generator object
Shared_next(i) ==
  /\ i \in 0..Len(heap)
  /\ PastEnd(0) <= MaxDonePulls
  /\ LET r == Consume([h |-> heap, it |-> iter, log |-> gave], i, <<>>)
     IN  /\ heap' = r.s.h
         /\ iter' = r.s.it
         /\ gave' = r.s.log
  /\ loop' = NoLoop
  /\ UNCHANGED <<gen, chain, built, out, last, pulls, dones, lastArgs, iter2, eager,
                 toArray>>
  /\ UNCHANGED asyncVars

\* a for-of loop over node i that breaks after `limit` values (0: never)
Shared_forOf(i, limit) ==
  /\ i \in 1..Len(heap)
  /\ PastEnd(0) <= MaxDonePulls
  /\ LET self == AugmentedIterator_iterator(heap, i)
         r == ForOfLoop(Consume([h |-> self.h, it |-> iter, log |-> gave],
                                self.obj, <<>>),
                        self.obj, limit, <<>>)
     IN  /\ heap' = r.s.h
         /\ iter' = r.s.it
         /\ gave' = r.s.log
         /\ loop' = [ran |-> TRUE, on |-> i, values |-> r.values, broke |-> r.broke]
  /\ UNCHANGED <<gen, chain, built, out, last, pulls, dones, lastArgs, iter2, eager,
                 toArray>>
  /\ UNCHANGED asyncVars

NextShare ==
  \/ \E target \in 0..MaxNodes, node \in SharedNodes : Shared_construct(target, node)
  \/ \E i \in 0..MaxNodes : Shared_next(i)
  \/ \E i \in 1..MaxNodes, limit \in Limits : Shared_forOf(i, limit)

\* function* () { for (let i = 1; i <= MaxVal; i++) { yield i; } return; }
Counting == [elems |-> [j \in 1..MaxVal |-> j], ending |-> "return"]

InitShare ==
  /\ arg = GeneratorArg
  /\ InitAsyncVars
  /\ InitShareVars
  /\ lastArgs = <<>>
  /\ gen = Counting
  /\ iter = FreshIter
  /\ chain = <<>>
  /\ built = <<>>
  /\ out = <<>>
  /\ last = NoResult
  /\ pulls = 0
  /\ dones = 0
  /\ iter2 = FreshIter
  /\ eager = NoEager
  /\ toArray = NoArray

SpecShare == InitShare /\ [][NextShare]_vars

\* ===================================================== reference semantics
\* What map, filter and a running fold mean on a list.
MapList(f, s) == [j \in 1..Len(s) |-> ApplyMapper(f, s[j])]

FilterList(g, s) ==
  LET Passes(x) == ApplyPredicate(g, x) IN SelectSeq(s, Passes)

RECURSIVE Fold(_, _, _)
Fold(r, i, s) ==
  IF s = <<>> THEN i ELSE ApplyReducer(r, Fold(r, i, SubSeq(s, 1, Len(s) - 1)), s[Len(s)])

ScanList(r, i, s) == [j \in 1..Len(s) |-> Fold(r, i, SubSeq(s, 1, j))]

Prefix(s, n) == SubSeq(s, 1, n)
Single(kind) == Len(built) = 1 /\ built[1].kind = kind
Drained == pulls > 0 /\ last.done

\* ------------------------------------------------------------------- C1
\* C1: a mapping node over a finite producer yields mapper(p1), mapper(p2),
\* ... in the producer's order, and as many values as the producer has.
C1_MapYieldsMapped ==
  Single("map") =>
    /\ out = MapList(built[1].fn, Prefix(gen.elems, Len(out)))
    /\ Drained => Len(out) = Len(gen.elems)

C1_Witness ==
  Single("map") /\ Drained /\ Len(out) >= 2 /\ gen.ending = "return"

\* ------------------------------------------------------------------- C2
\* C2: a filtering node yields exactly the elements the predicate accepts,
\* in the producer's order, nothing added, dropped or duplicated.
C2_FilterYieldsSubsequence ==
  Single("filter") =>
    /\ out = FilterList(built[1].fn, Prefix(gen.elems, iter.pos))
    /\ Drained => iter.pos = Len(gen.elems)

C2_Witness ==
  /\ Single("filter") /\ Drained /\ gen.ending = "return"
  /\ Len(out) >= 1 /\ Len(out) < Len(gen.elems)

\* ------------------------------------------------------------------- C3
\* C3: a reducing node yields one value per element of the producer, the
\* k-th being the reducer folded over the first k elements from initial.
C3_ReduceYieldsRunningFold ==
  Single("reduce") =>
    /\ out = ScanList(built[1].fn, built[1].initial, Prefix(gen.elems, Len(out)))
    /\ Drained => Len(out) = Len(gen.elems)

C3_Witness ==
  /\ Single("reduce") /\ Drained /\ gen.ending = "return"
  /\ Len(out) >= 2 /\ built[1].fn = "cat"

\* ------------------------------------------------------------------- C4
\* C4: over a non-empty producer, the last value a reducing node yields is
\* what eagerlyReduceIterator returns over a fresh producer of the same
\* elements, for the same reducer and initial value.
C4_LastEqualsEager ==
  ( /\ Single("reduce") /\ Drained /\ out # <<>>
    /\ eager.ran /\ ~eager.thrown
    /\ eager.reducer = built[1].fn /\ eager.initial = built[1].initial )
  => out[Len(out)] = eager.result

C4_Witness ==
  /\ Single("reduce") /\ Drained /\ Len(out) >= 2
  /\ eager.ran /\ ~eager.thrown
  /\ eager.reducer = "cat" /\ built[1].fn = "cat"
  /\ eager.initial = built[1].initial

\* ------------------------------------------------------------------- C5
\* C5: once next() on the outermost node of any chain has returned
\* done = true, every later next() on it returns done = true as well.
C5_IdempotentTermination ==
  [][(pulls > 0 /\ last.done) => last'.done]_vars

C5_Witness ==
  Len(built) = 2 /\ dones >= 2 /\ last.done /\ out # <<>>

\* ------------------------------------------------------------------- C6
\* C6: mapIterator(P, f).filter(g) yields the elements of P mapped by f and
\* then filtered by g, in order.
C6_MapThenFilter ==
  (Len(built) = 2 /\ built[1].kind = "map" /\ built[2].kind = "filter") =>
    /\ out = FilterList(built[2].fn, MapList(built[1].fn, Prefix(gen.elems, iter.pos)))
    /\ Drained => iter.pos = Len(gen.elems)

C6_Witness ==
  /\ Len(built) = 2 /\ built[1].kind = "map" /\ built[2].kind = "filter"
  /\ Drained /\ gen.ending = "return"
  /\ Len(out) >= 1 /\ Len(out) < Len(gen.elems)

\* ------------------------------------------------------------------- C7
\* C7: for each of the nine (node kind, chaining method) pairs, draining
\* node.method(args) yields what the method's list transformation (map,
\* filter, running fold) gives on the list the node itself drains to.
Transform(node, s) ==
  IF node.kind = "map" THEN MapList(node.fn, s)
  ELSE IF node.kind = "filter" THEN FilterList(node.fn, s)
  ELSE ScanList(node.fn, node.initial, s)

C7_ChainingLaws ==
  (Len(built) = 2 /\ Drained) =>
    out = Transform(built[2], Drain(<<built[1]>>))

C7_Witness ==
  /\ Len(built) = 2 /\ Drained /\ gen.ending = "return"
  /\ built[1].kind = "reduce" /\ built[2].kind = "filter"
  /\ Len(out) >= 1 /\ Len(out) < Len(gen.elems)

\* ------------------------------------------------------------------- C8
\* C8: when a node is chained after a filtering node and the chain is
\* drained, the first predicate has run once per element of the producer
\* and the downstream function once per element the first filter accepted.
C8_CallCountsAfterFilter ==
  (Len(built) = 2 /\ built[1].kind = "filter" /\ Drained) =>
    /\ chain[1].calls = Len(gen.elems)
    /\ chain[2].calls = Len(FilterList(built[1].fn, gen.elems))

C8_Witness ==
  /\ Len(built) = 2 /\ built[1].kind = "filter" /\ built[2].kind = "reduce"
  /\ Drained /\ gen.ending = "return"
  /\ chain[2].calls >= 1 /\ chain[2].calls < chain[1].calls

\* ------------------------------------------------------------------- C9
\* C9 as claimed: over a producer that yields one value and then throws,
\* any single map, filter or reduce node first yields one value and its
\* second next() throws.
OneThenThrow == Len(gen.elems) = 1 /\ gen.ending = "throw"

Accepts ==
  built[1].kind # "filter" \/ ApplyPredicate(built[1].fn, gen.elems[1])

C10_EmptyProducer ==
  (gen.elems = <<>> /\ gen.ending = "return") =>
    /\ (Single("reduce") /\ built[1].initial = 10 /\ pulls >= 1) =>
         (last.done /\ out = <<>> /\ chain[1].calls = 0 /\ chain[1].state = 10)
    /\ (eager.ran /\ eager.initial = 10) =>
         (eager.result = 10 /\ eager.calls = 0 /\ ~eager.thrown)

C10_Witness ==
  /\ gen.elems = <<>> /\ gen.ending = "return"
  /\ Single("reduce") /\ built[1].initial = 10 /\ pulls >= 1
  /\ eager.ran /\ eager.initial = 10

\* ------------------------------------------------------------------ C13
\* C13: the argument of next(arg) on the outermost node of any chain is
\* what the producer's next receives on that pull; a chain of map and
\* reduce nodes makes that one pull and no other.
NoFilter == \A k \in 1..Len(built) : built[k].kind # "filter"

C13_ArgForwarded ==
  pulls > 0 =>
    /\ Len(iter.recv) >= 1
    /\ iter.recv[1] = lastArgs
    /\ NoFilter => iter.recv = <<lastArgs>>

C13_Witness ==
  /\ Len(built) = 2 /\ NoFilter /\ pulls >= 2 /\ ~last.done /\ ~last.thrown
  /\ iter.recv = << <<PassedBack>> >>

\* ------------------------------------------------------------------ C14
\* C14: within one next(arg) on a filtering node, the first upstream pull
\* and the one made for each discarded candidate all carry the caller's arg.
Yielded(r) == ~r.done /\ ~r.thrown

C14_SameArgForSkipped ==
  [][(pulls' = pulls + 1 /\ Single("filter")) =>
       /\ \A j \in 1..Len(iter'.recv) : iter'.recv[j] = lastArgs'
       /\ Len(iter'.recv) = 1 + (chain'[1].calls - chain[1].calls)
                              - (IF Yielded(last') THEN 1 ELSE 0)]_vars

C14_Witness ==
  /\ Single("filter") /\ Len(iter.recv) >= 3 /\ Yielded(last)
  /\ iter.recv[3] = <<PassedBack>>

\* ------------------------------------------------------------------ C15
\* C15: building a node with a constructor or a chaining method pulls
\* nothing and calls no user function: until the first next() the producer
\* is where it started and every call count is zero.
C15_Laziness ==
  pulls = 0 =>
    /\ iter = FreshIter
    /\ out = <<>>
    /\ \A k \in 1..Len(chain) : chain[k].calls = 0 /\ chain[k].nexts = 0
                                /\ chain[k].state = chain[k].initial

C15_Witness ==
  Len(built) = 2 /\ Len(chain) = 2 /\ pulls = 0 /\ Len(gen.elems) >= 1

\* ------------------------------------------------------------------ C20
\* C20: eagerlyReduceIterator returns the reducer folded left to right over
\* all elements from initial, calls the reducer once per element and leaves
\* the producer exhausted.
C20_EagerFold ==
  (eager.ran /\ ~eager.thrown) =>
    /\ eager.result = Fold(eager.reducer, eager.initial, gen.elems)
    /\ eager.calls = Len(gen.elems)
    /\ iter2.pos = Len(gen.elems)
    /\ Generator_next(gen, iter2, <<>>).done

C20_Witness ==
  /\ eager.ran /\ ~eager.thrown /\ eager.reducer = "cat"
  /\ Len(gen.elems) >= 2 /\ eager.calls >= 2

\* ------------------------------------------------------------------ C11
\* C11: reduceIterator called with an argument that has neither a
\* Symbol.iterator nor a Symbol.asyncIterator method (null included) throws
\* an error whose message is NeitherMessage.
Neither == ~arg.sync /\ ~arg.async

C11_ReduceRejectsNonIterable ==
  (made.by = "reduceIterator" /\ Neither) =>
    (made.outcome = "throws" /\ made.message = NeitherMessage)

\* ------------------------------------------------------------------ C12
\* C12: mapIterator and filterIterator called with an argument that has
\* neither method (null included) throw an error whose message is
\* NeitherMessage.
C12_MapFilterRejectNonIterable ==
  (made.by \in {"mapIterator", "filterIterator"} /\ Neither) =>
    (made.outcome = "throws" /\ made.message = NeitherMessage)

\* ------------------------------------------------------------------ C16
\* C16: over an asynchronous producer, awaiting each next() of
\* reduceIterator(P, r, i) in turn yields the running fold of P, each value
\* resolved (never a promise), then done; r is called once per element.
AsyncScan(node, s) ==
  [j \in 1..Len(s) |-> AVal(Fold(node.fn.fn, node.initial.value, Prefix(s, j)))]

C16_AsyncRunningFold ==
  Len(achain) = 1 =>
    /\ aout = AsyncScan(achain[1], Prefix(gen.elems, Len(aout)))
    /\ flight = <<>> => achain[1].calls = Len(aout)
    /\ achain[1].calls <= Len(aout) + 1
    /\ alast.done => Len(aout) = Len(gen.elems)

C16_Witness ==
  /\ Len(achain) = 1 /\ achain[1].fn.promise /\ gen.ending = "return"
  /\ alast.done /\ Len(aout) >= 2 /\ flight = <<>>

\* ------------------------------------------------------------------ C17
\* C17: mapIterator over an asynchronous producer returns an asynchronous
\* node.
C17_AsyncMapNode ==
  (made.by = "mapIterator" /\ arg = AsyncGeneratorArg) => made.outcome = "async"

\* ------------------------------------------------------------------ C18
\* C18: filterIterator over an asynchronous producer returns an
\* asynchronous node.
C18_AsyncFilterNode ==
  (made.by = "filterIterator" /\ arg = AsyncGeneratorArg) => made.outcome = "async"

\* ------------------------------------------------------------------ C19
\* C19: .map, .filter and .reduce called on an asynchronous node return a
\* new asynchronous node and never throw.
C19_AsyncChainingNeverThrows ==
  made.by \in {"AugmentedAsyncIterator.map", "AugmentedAsyncIterator.filter",
               "AugmentedAsyncIterator.reduce"}
    => made.outcome = "async"

\* ------------------------------------------------------------------ C21
\* C21: mapIteratorToArray(P, f) over a producer that completes returns the
\* sequence that draining mapIterator(P', f) over a fresh producer of the
\* same elements yields, and leaves P exhausted.
Exhausted(it) == it.pos = Len(gen.elems) /\ Generator_next(gen, it, <<>>).done

C21_MapToArray ==
  (toArray.ran /\ toArray.by = "mapIteratorToArray") =>
    /\ toArray.thrown <=> gen.ending = "throw"
    /\ ~toArray.thrown =>
         /\ toArray.result = Drain(<<NewNode("map", toArray.fn, Undefined)>>)
         /\ (Single("map") /\ built[1].fn = toArray.fn /\ Drained) => toArray.result = out
         /\ Exhausted(toArray.it)

C21_Witness ==
  /\ toArray.ran /\ toArray.by = "mapIteratorToArray" /\ ~toArray.thrown
  /\ Len(toArray.result) >= 2 /\ toArray.result[1] # toArray.result[2]
  /\ Single("map") /\ Drained

C23_EagerBails ==
  (eager.ran /\ gen.ending = "throw") =>
    /\ eager.thrown /\ eager.error = ProducerError
    /\ eager.result = Undefined
    /\ eager.calls = Len(gen.elems)
    /\ iter2.fin /\ iter2.nexts = Len(gen.elems) + 1

C23_Witness ==
  eager.ran /\ gen.ending = "throw" /\ Len(gen.elems) = 1 /\ eager.thrown

\* ------------------------------------------------------------------ C24
\* C24: a next() of a mapping node whose upstream gives a non-terminal
\* result calls the mapper once and returns done = false with the mapped
\* value; one whose upstream gives a terminal result does not call the
\* mapper and returns that result as it is.
Top == Len(chain)
OnTop(kind) == chain # <<>> /\ chain[Top].kind = kind

\* what the upstream of the outermost node answers to next(...args)
UpstreamOfTop(args) ==
  NodeNext([it |-> [iter EXCEPT !.recv = <<>>], chain |-> chain], Top - 1, args)

C24_MapperOncePerValue ==
  [][(pulls' = pulls + 1 /\ OnTop("map")) =>
       LET up == UpstreamOfTop(lastArgs')
       IN  IF up.thrown
             THEN last'.thrown /\ chain'[Top].calls = chain[Top].calls
           ELSE IF ~up.done
             THEN /\ chain'[Top].calls = chain[Top].calls + 1
                  /\ last' = [done |-> FALSE, thrown |-> FALSE,
                              value |-> ApplyMapper(chain[Top].fn, up.value)]
           ELSE /\ chain'[Top].calls = chain[Top].calls
                /\ last' = [done |-> TRUE, thrown |-> FALSE, value |-> up.value]]_vars

C24_Witness ==
  /\ OnTop("map") /\ Top = 2 /\ chain[1].kind = "filter"
  /\ Drained /\ chain[2].calls >= 1 /\ chain[2].calls < Len(gen.elems)

\* ------------------------------------------------------------------ C25
\* C25: in every state the carry of a reducing node is the reducer folded
\* from initial over the non-terminal values it has pulled so far, and the
\* reducer has run once per such value; a terminal result is returned as it
\* is and neither resets nor changes the carry, however often next() is
\* called after completion.
\* the values the upstream of the outermost node has yielded (chains of up
\* to two nodes)
TopInputs ==
  IF Len(built) = 1 THEN Prefix(gen.elems, iter.pos)
  ELSE Transform(built[1], Prefix(gen.elems, iter.pos))

BuiltOnTop(kind) == Len(built) \in 1..2 /\ built[Len(built)].kind = kind

C25_CarryIsFold ==
  BuiltOnTop("reduce") =>
    /\ chain[Top].state = Fold(built[Top].fn, built[Top].initial, TopInputs)
    /\ chain[Top].calls = Len(TopInputs)
    /\ Drained => last.value = Undefined

C25_Witness ==
  /\ BuiltOnTop("reduce") /\ Top = 2 /\ dones >= 2
  /\ chain[2].calls >= 2 /\ chain[2].state # built[2].initial

\* ------------------------------------------------------------------ C26
\* C26: a filtering node runs its predicate once per non-terminal value it
\* pulls, accepted or discarded, and never on a terminal result; drained
\* over a producer of n elements the predicate has run n times.
C26_PredicateOncePerValue ==
  BuiltOnTop("filter") =>
    /\ chain[Top].calls = Len(TopInputs)
    /\ (Single("filter") /\ Drained) => chain[1].calls = Len(gen.elems)

C26_Witness ==
  /\ Single("filter") /\ Drained /\ dones >= 2
  /\ chain[1].calls = Len(gen.elems) /\ Len(gen.elems) >= 2
  /\ Len(out) >= 1 /\ Len(out) < Len(gen.elems)

\* ------------------------------------------------------------------ C27
\* C27: every next() of a mapping or reducing node pulls its upstream
\* exactly once, so in a chain of map and reduce nodes each next() on the
\* outermost node is one next() on every node and one on the producer.
C27_OnePullPerLayer ==
  NoFilter =>
    /\ iter.nexts = pulls
    /\ \A k \in 1..Len(chain) : chain[k].nexts = pulls

C27_Witness ==
  /\ Len(built) = 2 /\ NoFilter /\ built[1].kind # built[2].kind
  /\ pulls >= 3 /\ iter.nexts = pulls /\ last.done

\* ------------------------------------------------------------------ C28
\* C28: a filtering node does not read ahead: when its next() returns the
\* producer's j-th element the producer has been pulled j times in all, and
\* each next() that returns done has pulled the completed producer once,
\* the first of them one pull past the last element.
C28_NoReadAhead ==
  (Single("filter") /\ pulls > 0) =>
    /\ Yielded(last) => (iter.nexts = iter.pos /\ last.value = gen.elems[iter.pos])
    /\ (last.done /\ gen.ending = "return") =>
         (iter.pos = Len(gen.elems) /\ iter.nexts = Len(gen.elems) + dones)

C28_Witness ==
  /\ Single("filter") /\ pulls = 1 /\ Yielded(last)
  /\ iter.pos >= 3 /\ iter.nexts = iter.pos

\* ------------------------------------------------------------------ C29
\* C29: every next() of a filtering node over a finite producer ends after
\* at most (elements not yet pulled + 1) pulls; it ends with a value only
\* if the predicate accepts that value and every value pulled before it in
\* this call was rejected, and without a value only when the producer has
\* nothing left.
C29_SkipLoopTerminates ==
  [][(pulls' = pulls + 1 /\ Single("filter")) =>
       LET pulled == iter'.nexts - iter.nexts
           skipped == (iter.pos + 1)..(iter'.pos - (IF Yielded(last') THEN 1 ELSE 0))
       IN  /\ pulled >= 1
           /\ pulled <= (Len(gen.elems) - iter.pos) + 1
           /\ Yielded(last') => ApplyPredicate(built[1].fn, last'.value)
           /\ \A j \in skipped : ~ApplyPredicate(built[1].fn, gen.elems[j])
           /\ ~Yielded(last') => iter'.pos = Len(gen.elems)]_vars

C29_Witness ==
  /\ Single("filter") /\ pulls = 1 /\ last.done
  /\ Len(gen.elems) >= 2 /\ iter.nexts = Len(gen.elems) + 1

\* ------------------------------------------------------------------ C30
\* C30: when a mapper, predicate or reducer throws during next(), that
\* next() and the next() of every enclosing node throw the same error:
\* the call yields no value, the function is not called again, no enclosing
\* node throws an error of its own or runs its function on the failed pull,
\* and a reducing node keeps its carry.  (Call counts and carries are
\* compared across the consumer's next() for the nodes no filter encloses,
\* which that next() pulls exactly once.)
Threw(k) == chain'[k].threw > chain[k].threw
\* no filter encloses chain[k]: one next() of the consumer is one next() of it
PulledOnce(k) == \A j \in (k + 1)..Len(chain) : chain[j].kind # "filter"

C30_UserErrorPropagates ==
  [][(pulls' = pulls + 1 /\ \E k \in 1..Len(chain) : Threw(k)) =>
       /\ last'.thrown /\ last'.value = UserError
       /\ out' = out
       /\ \A k \in 1..Len(chain) : Threw(k) =>
            /\ chain'[k].threw = chain[k].threw + 1
            /\ PulledOnce(k) =>
                 /\ chain'[k].state = chain[k].state
                 /\ chain[k].kind # "filter" => chain'[k].calls = chain[k].calls + 1
            /\ \A j \in (k + 1)..Len(chain) :
                 /\ ~Threw(j)
                 /\ PulledOnce(j) =>
                      /\ chain'[j].state = chain[j].state
                      /\ chain[j].kind # "filter" => chain'[j].calls = chain[j].calls]_vars

C30_Witness ==
  /\ Len(chain) = 2 /\ chain[1].threw = 1 /\ chain[2].threw = 0
  /\ chain[1].kind = "reduce" /\ chain[2].kind = "map"
  /\ last.thrown /\ last.value = UserError /\ pulls >= 2 /\ out # <<>>

\* ------------------------------------------------------------------ C31
\* C31: when the reducer of a reducing node, synchronous or asynchronous,
\* throws (or its promise is rejected) during a pull, the carry stays what
\* it was before that pull although the element is consumed: in every state
\* the carry is the fold over the pulled elements the reducer returned for.
Survived(fn, s) ==
  LET Returns(x) == ~UserThrows(fn, x) IN SelectSeq(s, Returns)

Failed(fn, s) ==
  LET Throws(x) == UserThrows(fn, x) IN SelectSeq(s, Throws)

C31_CarryKeptOnThrow ==
  /\ (Len(chain) = 1 /\ chain[1].kind = "reduce") =>
       LET pulled == Prefix(gen.elems, iter.pos)
       IN  /\ chain[1].state = Fold(chain[1].fn, chain[1].initial,
                                    Survived(chain[1].fn, pulled))
           /\ chain[1].calls = Len(pulled)
           /\ chain[1].threw = Len(Failed(chain[1].fn, pulled))
  /\ (Len(achain) = 1 /\ flight = <<>>) =>
       LET pulled == Prefix(gen.elems, aiter.pos)
       IN  /\ achain[1].state = AVal(Fold(achain[1].fn.fn, achain[1].initial.value,
                                          Survived(achain[1].fn.fn, pulled)))
           /\ achain[1].calls = Len(pulled)
           /\ achain[1].threw = Len(Failed(achain[1].fn.fn, pulled))

C31_Witness ==
  /\ Len(achain) = 1 /\ flight = <<>> /\ achain[1].fn.promise
  /\ achain[1].threw >= 1 /\ alast.thrown /\ alast.value = AVal(UserError)
  /\ achain[1].state # achain[1].initial /\ aiter.pos >= 2

\* ------------------------------------------------------------------ C37
\* C37: reduceIterator chooses the node once, when it is called: an object
\* with a Symbol.iterator method gets a synchronous reducing node, also when
\* it has a Symbol.asyncIterator method too; an object with only the latter
\* gets an asynchronous reducing node; pulls are served by the node chosen
\* and never by the other kind.
C37_DispatchOnce ==
  made.by = "reduceIterator" =>
    /\ (arg.type = "object" /\ arg.sync) =>
         /\ made.outcome = "sync"
         /\ Len(chain) = 1 /\ chain[1].kind = "reduce" /\ chain[1].nexts = pulls
         /\ achain = <<>> /\ flight = <<>> /\ aiter = FreshIter
    /\ (arg.type = "object" /\ ~arg.sync /\ arg.async) =>
         /\ made.outcome = "async"
         /\ Len(achain) = 1 /\ achain[1].kind = "reduce"
         /\ chain = <<>> /\ iter = FreshIter /\ pulls = 0

C37_Witness ==
  /\ made.by = "reduceIterator" /\ arg = BothArg /\ made.outcome = "sync"
  /\ pulls >= 2 /\ Len(out) >= 2

\* ------------------------------------------------------------------ C34
\* C34 as claimed: on an asynchronous reducing node whose reducer suspends,
\* also when next() is called again before the earlier call has settled,
\* the k-th settled result is the reducer folded over the first k values of
\* the producer and the final carry is the fold over all values pulled.
C34_Original ==
  Len(achain) = 1 =>
    /\ aout = AsyncScan(achain[1], Prefix(gen.elems, Len(aout)))
    /\ flight = <<>> =>
         achain[1].state = AVal(Fold(achain[1].fn.fn, achain[1].initial.value,
                                     Prefix(gen.elems, aiter.pos)))

\* C34 as amended: if every next() is called after the earlier ones have
\* settled, the k-th result is the fold over the first k values and the
\* final carry the fold over all values pulled.  If next() is called while
\* an earlier call is unsettled and the reducer suspends, the node does not
\* serialise the calls: each value of the producer still goes to exactly one
\* reducer call, but a call may read a carry that an earlier call has not
\* yet replaced, so each settled result is the reducer applied to the
\* initial value or to some settled result, and a carry update can be lost.
Carries == {achain[1].initial.value} \cup {aout[j].value : j \in 1..Len(aout)}

Resuming == {i \in 1..Len(flight) : flight[i].pc = "resume" /\ Yielded(flight[i].result)}

C34_NoSerialisation ==
  Len(achain) = 1 =>
    /\ ~overlapped =>
         /\ aout = AsyncScan(achain[1], Prefix(gen.elems, Len(aout)))
         /\ flight = <<>> =>
              achain[1].state = AVal(Fold(achain[1].fn.fn, achain[1].initial.value,
                                          Prefix(gen.elems, aiter.pos)))
    /\ achain[1].calls + Cardinality(Resuming) = aiter.pos
    /\ \A j \in 1..Len(aout) :
         \E c \in Carries, e \in 1..aiter.pos :
           aout[j] = AVal(ApplyReducer(achain[1].fn.fn, c, gen.elems[e]))
    /\ achain[1].state.value \in Carries

C34_Witness ==
  /\ Len(achain) = 1 /\ overlapped /\ flight = <<>> /\ Len(aout) = 2
  /\ aout[1] = AVal(ApplyReducer(achain[1].fn.fn, achain[1].initial.value, gen.elems[1]))
  /\ aout[2] = AVal(ApplyReducer(achain[1].fn.fn, achain[1].initial.value, gen.elems[2]))
  /\ aout # AsyncScan(achain[1], Prefix(gen.elems, 2))

\* ------------------------------------------------- C32, C33, C35, C36
ValuesOf(log) == [j \in 1..Len(log) |-> log[j].value]

\* the values node i has received: those the object it was built on
\* returned to it
InputsIn(h, log, i) ==
  LET TookIt(e) == e.to = i
  IN  ValuesOf(SelectSeq(log[h[i].on + 1], TookIt))

Inputs(i) == InputsIn(heap, gave, i)
Outputs(i) == ValuesOf(gave[i + 1])

\* the state k successive next() calls of the consumer on object i lead to
RECURSIVE Pulled(_, _, _)
Pulled(s, i, k) == IF k = 0 THEN s ELSE Pulled(Consume(s, i, <<>>).s, i, k - 1)

\* ------------------------------------------------------------------ C32
\* C32: calling .map, .filter or .reduce on a node (or a constructor on the
\* generator object) changes no existing object: no next() is called on
\* any of them, the producer's position and every carry stay as they were,
\* and the one new object is an unpulled node whose this.iterable is the
\* object the method was called on.
C32_ChainingLeavesNode ==
  [][Len(heap') = Len(heap) + 1 =>
       LET new == heap'[Len(heap')]
       IN  /\ \A i \in 1..Len(heap) : heap'[i] = heap[i]
           /\ iter' = iter
           /\ gave' = Append(gave, <<>>)
           /\ new.on \in 0..Len(heap)
           /\ new.iterable = new.on
           /\ new.nexts = 0 /\ new.calls = 0 /\ new.state = new.initial]_vars

C32_Witness ==
  \E i \in 1..Len(heap) :
    /\ heap[i].on >= 1 /\ heap[i].nexts = 0
    /\ heap[heap[i].on].kind = "reduce"
    /\ heap[heap[i].on].nexts >= 1
    /\ heap[heap[i].on].state # heap[heap[i].on].initial

\* ------------------------------------------------------------------ C33
\* C33: a for-of loop over a node that breaks after k values leaves every
\* object exactly as k plain next() calls on the node leave it: nothing is
\* closed (the generator object is not finished) and nothing is read
\* ahead, so the next next() on the generator object gives the element
\* after the last one consumed, or done when there is none.
C33_NoUpstreamClose ==
  [][(loop'.ran /\ loop'.broke) =>
       LET after == Pulled([h |-> heap, it |-> iter, log |-> gave], loop'.on,
                           Len(loop'.values))
           following == Generator_next(gen, iter', <<>>)
       IN  /\ heap' = after.h /\ iter' = after.it /\ gave' = after.log
           /\ ~iter'.fin
           /\ ~following.thrown
           /\ IF iter'.pos < Len(gen.elems)
                THEN ~following.done /\ following.value = gen.elems[iter'.pos + 1]
              ELSE following.done]_vars

C33_Witness ==
  /\ loop.ran /\ loop.broke
  /\ ~iter.fin /\ iter.pos >= 1 /\ iter.pos < Len(gen.elems)

\* ------------------------------------------------------------------ C35
\* C35: a for-of loop over node i iterates node i itself: no object is
\* made, the values of the loop are returned by node i after those it had
\* returned before, all of node i's values together are one run of its
\* transformation over the values it has received (nothing restarts, the
\* carry is not set back), and a loop over a node that has already returned
\* done gets no value.
C35_IteratorIsSelf ==
  [][loop'.ran =>
       LET i == loop'.on
       IN  /\ Len(heap') = Len(heap)
           /\ gave'[i + 1] = gave[i + 1] \o Entries(loop'.values, 0)
           /\ ValuesOf(gave'[i + 1]) = Transform(heap[i], InputsIn(heap', gave', i))
           /\ PastEnd(i) > 0 => loop'.values = <<>>]_vars

C35_Witness ==
  /\ loop.ran /\ loop.values # <<>>
  /\ heap[loop.on].kind = "reduce"
  /\ Len(gave[loop.on + 1]) > Len(loop.values)
  /\ PastEnd(loop.on) > 0

====
